---------------------------- MODULE Spec2Model ----------------------------
(***************************************************************************)
(* A model of src/main.py: the Twilio / ElevenLabs bridge server.          *)
(*                                                                         *)
(* Text that the code inspects character by character (phone numbers, the  *)
(* ElevenLabs-Signature header, medication time tags) is a sequence of     *)
(* one-character strings.  Text the code only stores or compares as a      *)
(* whole (names, messages) is a TLA+ string.  Python's None is the value   *)
(* None below, which is no sequence of characters.                         *)
(***************************************************************************)
EXTENDS Naturals, Sequences, FiniteSets, TLC

VARIABLES
    users,                  \* table users: rows [id, phone_number, user_name]
    conversations,          \* table conversations, in insertion order
    loved_ones,             \* table loved_ones
    medications,            \* table medications
    call_preferences,       \* table call_preferences
    notification_settings,  \* table notification_settings
    appointments,           \* table consolidated_appointments
    last,                   \* the last request handled and its outcome
    session                 \* the media-stream sessions (handle_media_stream)

vars == <<users, conversations, loved_ones, medications, call_preferences,
          notification_settings, appointments, last, session>>

tables == <<loved_ones, medications, call_preferences, notification_settings,
            appointments>>

-----------------------------------------------------------------------------
(* Bounds of the model.                                                    *)

\* Rows the conversations table may hold before call-end requests stop.
MaxConversations == 2

\* Text frames a telephony client sends on one media stream.
MaxFrames == 2

\* Rows of the medications table.
MaxMeds == 2

\* Appointment rows in the datastore when initiate_call summarises them.
MaxAppts == 4

\* Characters of a phone number string handed to the normalisation.
MaxPhoneLen == 4

-----------------------------------------------------------------------------
(* Python values and string methods.                                       *)

None == <<"None">>

\* Python truthiness of an optional string / list: None and empty are falsy.
Truthy(x) == x # None /\ x # <<>>

Whitespace == {" ", "\t", "\n"}

RECURSIVE LStrip(_)
LStrip(s) ==
    IF s # <<>> /\ Head(s) \in Whitespace THEN LStrip(Tail(s)) ELSE s

RECURSIVE RStrip(_)
RStrip(s) ==
    IF s # <<>> /\ s[Len(s)] \in Whitespace
    THEN RStrip(SubSeq(s, 1, Len(s) - 1))
    ELSE s

\* str.strip()
Strip(s) == RStrip(LStrip(s))

\* str.replace(" ", "")
RemoveSpaces(s) == SelectSeq(s, LAMBDA c : c # " ")

\* str.startswith(p) for a one-character p
StartsWith(s, p) == s # <<>> /\ Head(s) = p

\* str.split(sep) for a one-character sep: "a,,b" gives a, "", b; "" gives "".
RECURSIVE Split(_, _)
Split(s, sep) ==
    IF \A i \in 1..Len(s) : s[i] # sep
    THEN <<s>>
    ELSE LET i == CHOOSE k \in 1..Len(s) :
                     s[k] = sep /\ \A j \in 1..(k - 1) : s[j] # sep
         IN  <<SubSeq(s, 1, i - 1)>> \o Split(SubSeq(s, i + 1, Len(s)), sep)

\* sub in s, for strings
Contains(s, sub) ==
    \E i \in 0..(Len(s) - Len(sub)) :
        \A j \in 1..Len(sub) : s[i + j] = sub[j]

\* sep.join(xs): the strings of xs with sep between them
RECURSIVE Join(_, _)
Join(xs, sep) ==
    IF xs = <<>> THEN <<>>
    ELSE IF Len(xs) = 1 THEN xs[1]
    ELSE xs[1] \o sep \o Join(Tail(xs), sep)

\* dict.get(key, default)
Get(d, key, default) == IF key \in DOMAIN d THEN d[key] ELSE default

\* str(b).lower() of a Python bool
BoolStr(b) == IF b THEN "true" ELSE "false"

-----------------------------------------------------------------------------
(* Phone normalisation, written out four times in the source.              *)

\* As Normalize, with the '+' put in front whatever the first character is.
NormalizeAlwaysPrefix(phone_number) ==
    <<"+">> \o RemoveSpaces(Strip(phone_number))

NormalizeNoPrefix(phone_number) == RemoveSpaces(Strip(phone_number))

Normalize(phone_number) ==
    LET normalized_number == RemoveSpaces(Strip(phone_number))
    IN  IF StartsWith(normalized_number, "+")
        THEN normalized_number
        ELSE <<"+">> \o normalized_number

-----------------------------------------------------------------------------
(* The datastore (supabase): select ... eq(column, value) and insert.      *)

SelectEq(table, column, value) ==
    SelectSeq(table, LAMBDA row : row[column] = value)

\* A datastore call raises when the request's injected fault names it.
Raises(fail, call) == fail = call

-----------------------------------------------------------------------------
(* get_loved_one_profile_query: the medication buckets.                    *)

UpperLetters == <<"A","B","C","D","E","F","G","H","I","J","K","L","M",
                  "N","O","P","Q","R","S","T","U","V","W","X","Y","Z">>
LowerLetters == <<"a","b","c","d","e","f","g","h","i","j","k","l","m",
                  "n","o","p","q","r","s","t","u","v","w","x","y","z">>

LowerChar(c) ==
    IF \E i \in DOMAIN UpperLetters : UpperLetters[i] = c
    THEN LowerLetters[CHOOSE i \in DOMAIN UpperLetters : UpperLetters[i] = c]
    ELSE c

\* str.lower()
Lower(s) == [i \in DOMAIN s |-> LowerChar(s[i])]

MORNING == <<"m","o","r","n","i","n","g">>
AFTERNOON == <<"a","f","t","e","r","n","o","o","n">>
EVENING == <<"e","v","e","n","i","n","g">>
NONE_STR == <<"n","o","n","e">>
COMMA_SPACE == <<",", " ">>

\* A time_taken value is a list of tags [kind |-> "list", items |-> ...] or a
\* single string [kind |-> "str", text |-> ...]; a row may lack the column.
TimesCaseSensitive(med) ==
    LET time_taken == Get(med, "time_taken", [kind |-> "list", items |-> <<>>])
    IN  IF time_taken.kind = "list"
        THEN time_taken.items
        ELSE LET parts == Split(time_taken.text, ",")
             IN  [i \in DOMAIN parts |-> Strip(parts[i])]

Times(med) ==
    LET time_taken == Get(med, "time_taken", [kind |-> "list", items |-> <<>>])
    IN  IF time_taken.kind = "list"
        THEN [i \in DOMAIN time_taken.items |-> Lower(time_taken.items[i])]
        ELSE LET parts == Split(time_taken.text, ",")
             IN  [i \in DOMAIN parts |-> Lower(Strip(parts[i]))]

\* any(word in t for t in times)
AnyContains(times, word) == \E i \in DOMAIN times : Contains(times[i], word)

\* The loop over the medication rows, appending to the three lists.
RECURSIVE BucketMeds(_, _)
BucketMeds(meds, acc) ==
    IF meds = <<>> THEN acc
    ELSE LET med == Head(meds)
             med_name == med.medication_name
             times == Times(med)
         IN  BucketMeds(Tail(meds),
                 [morning_meds |->
                      IF AnyContains(times, MORNING)
                      THEN Append(acc.morning_meds, med_name)
                      ELSE acc.morning_meds,
                  afternoon_meds |->
                      IF AnyContains(times, AFTERNOON)
                      THEN Append(acc.afternoon_meds, med_name)
                      ELSE acc.afternoon_meds,
                  evening_meds |->
                      IF AnyContains(times, EVENING)
                      THEN Append(acc.evening_meds, med_name)
                      ELSE acc.evening_meds])

\* ", ".join(names) if names else "none"
BucketString(names) ==
    IF names # <<>> THEN Join(names, COMMA_SPACE) ELSE NONE_STR

\* The "medications" section of the clean profile.
MedicationsSection(meds) ==
    LET b == BucketMeds(meds, [morning_meds |-> <<>>, afternoon_meds |-> <<>>,
                               evening_meds |-> <<>>])
    IN  [has_medications |-> Len(meds) > 0,
         morning_medications |-> BucketString(b.morning_meds),
         afternoon_medications |-> BucketString(b.afternoon_meds),
         evening_medications |-> BucketString(b.evening_meds)]

\* The "appointments" list of the clean profile, in retrieval order.
UpcomingAppointments(appts) ==
    [i \in DOMAIN appts |->
        [title |-> appts[i].appointment_title,
         date |-> appts[i].appointment_date,
         time |-> appts[i].appointment_time,
         frequency |-> appts[i].frequency]]

-----------------------------------------------------------------------------
(* get_loved_one_profile_query(phone_number), reading the tables of        *)
(* datastore state db; fail names the datastore call that raises, if any.  *)

ProfileFaults == {"none", "users.select", "loved_ones.select",
                  "medications.select"}

ErrorProfile(e) == [caller_name |-> "Valued Customer", error |-> e]

CleanProfile(user_name, loved_one, meds, prefs, notif, appts) ==
    [caller |-> [name |-> user_name],
     loved_one |-> [name |-> loved_one.name,
                    nickname |-> loved_one.nickname,
                    age_range |-> loved_one.age_range,
                    gender |-> loved_one.gender,
                    relationship |-> loved_one.relationship_to_user],
     medications |-> MedicationsSection(meds),
     call_settings |->
        [length |-> Get(prefs, "call_length", "medium"),
         voice |-> Get(prefs, "voice_preference", "female"),
         frequency |-> Get(prefs, "call_frequency", "daily check ins"),
         checklist |->
            [medication_reminders |-> Get(prefs, "medication_reminders", FALSE),
             sleep_quality |-> Get(prefs, "sleep_quality", FALSE),
             mood_check |-> Get(prefs, "mood_check", FALSE),
             upcoming_appointments |->
                 Get(prefs, "upcoming_appointments", FALSE)]],
     notifications |->
        [daily_summary |-> Get(notif, "daily_call_summary", FALSE),
         missed_calls |-> Get(notif, "missed_calls", FALSE),
         low_sentiment |-> Get(notif, "low_sentiment", FALSE)],
     appointments |-> UpcomingAppointments(appts)]

\* The empty dict {}: a record with no field.
EmptyDict == [k \in {} |-> None]

GetLovedOneProfile(db, phone_number, fail) ==
    LET normalized_number == Normalize(phone_number)
        user_response == SelectEq(db.users, "phone_number", normalized_number)
    IN
    IF Raises(fail, "users.select") THEN ErrorProfile("users.select failed")
    ELSE IF user_response = <<>>
    THEN [caller_name |-> "Valued Customer", error |-> "User not found"]
    ELSE
    LET user_id == user_response[1].id
        user_name == user_response[1].user_name
        loved_one_response == SelectEq(db.loved_ones, "user_id", user_id)
    IN
    IF Raises(fail, "loved_ones.select")
    THEN ErrorProfile("loved_ones.select failed")
    ELSE IF loved_one_response = <<>>
    THEN [caller_name |-> user_name, error |-> "No loved one profile found"]
    ELSE
    LET loved_one == loved_one_response[1]
        loved_one_id == loved_one.id
        meds == SelectEq(db.medications, "loved_one_id", loved_one_id)
        call_prefs_response ==
            SelectEq(db.call_preferences, "loved_one_id", loved_one_id)
        prefs == IF call_prefs_response # <<>>
                 THEN call_prefs_response[1] ELSE EmptyDict
        notif_response ==
            SelectEq(db.notification_settings, "loved_one_id", loved_one_id)
        notif == IF notif_response # <<>> THEN notif_response[1] ELSE EmptyDict
        appts == SelectEq(db.appointments, "loved_one_id", loved_one_id)
    IN
    IF Raises(fail, "medications.select")
    THEN ErrorProfile("medications.select failed")
    ELSE CleanProfile(user_name, loved_one, meds, prefs, notif, appts)

\* The datastore as the handlers see it.
DB == [users |-> users, conversations |-> conversations,
       loved_ones |-> loved_ones, medications |-> medications,
       call_preferences |-> call_preferences,
       notification_settings |-> notification_settings,
       appointments |-> appointments]


-----------------------------------------------------------------------------
(* Dynamic variables built from a profile (initiate_call and               *)
(* handle_conversation_initiation share this part word for word).          *)

TimeOfDay(hour) ==
    IF 5 <= hour /\ hour < 12 THEN "morning"
    ELSE IF 12 <= hour /\ hour < 17 THEN "afternoon"
    ELSE "evening"

ProfileVariables(profile) ==
    LET caller == Get(profile, "caller", EmptyDict)
        loved_one == Get(profile, "loved_one", EmptyDict)
        meds == Get(profile, "medications", EmptyDict)
        settings == Get(profile, "call_settings", EmptyDict)
        checklist == Get(settings, "checklist", EmptyDict)
        notif == Get(profile, "notifications", EmptyDict)
    IN  [caller_name |-> Get(caller, "name", "there"),
         loved_one_name |-> Get(loved_one, "name", ""),
         loved_one_nickname |-> Get(loved_one, "nickname", ""),
         loved_one_gender |-> Get(loved_one, "gender", ""),
         loved_one_relationship |-> Get(loved_one, "relationship", ""),
         has_medications |-> BoolStr(Get(meds, "has_medications", FALSE)),
         morning_medications |-> Get(meds, "morning_medications", NONE_STR),
         afternoon_medications |-> Get(meds, "afternoon_medications", NONE_STR),
         evening_medications |-> Get(meds, "evening_medications", NONE_STR),
         call_length |-> Get(settings, "length", "medium"),
         voice_preference |-> Get(settings, "voice", "female"),
         call_frequency |-> Get(settings, "frequency", "daily check ins"),
         check_medications |->
             BoolStr(Get(checklist, "medication_reminders", FALSE)),
         check_sleep |-> BoolStr(Get(checklist, "sleep_quality", FALSE)),
         check_mood |-> BoolStr(Get(checklist, "mood_check", FALSE)),
         check_appointments |->
             BoolStr(Get(checklist, "upcoming_appointments", FALSE)),
         notify_daily_summary |-> BoolStr(Get(notif, "daily_summary", FALSE)),
         notify_missed_calls |-> BoolStr(Get(notif, "missed_calls", FALSE)),
         notify_low_sentiment |-> BoolStr(Get(notif, "low_sentiment", FALSE))]

\* d1 updated with the keys of d2 (dynamic_variables[key] = value)
Update(d1, d2) ==
    [k \in DOMAIN d1 \cup DOMAIN d2 |-> IF k \in DOMAIN d2 THEN d2[k] ELSE d1[k]]

ON == <<" ", "o", "n", " ">>
AT == <<" ", "a", "t", " ">>

\* f"{appt.get('title')} on {appt.get('date')} at {appt.get('time')}"
ApptDetail(appt) == appt.title \o ON \o appt.date \o AT \o appt.time

\* appointments[:n]
FirstN(xs, n) == SubSeq(xs, 1, IF Len(xs) < n THEN Len(xs) ELSE n)

\* As AppointmentVariables, without the [:3] slice.
AppointmentVariablesAll(appts) ==
    IF appts # <<>>
    THEN [has_upcoming_appointment |-> "true",
          next_appointment_title |-> appts[1].title,
          next_appointment_date |-> appts[1].date,
          next_appointment_time |-> appts[1].time,
          upcoming_appointments |->
              Join([i \in DOMAIN appts |-> ApptDetail(appts[i])],
                   COMMA_SPACE)]
    ELSE [has_upcoming_appointment |-> "false",
          upcoming_appointments |-> NONE_STR]

AppointmentVariables(appts) ==
    IF appts # <<>>
    THEN LET first == FirstN(appts, 3)
         IN  [has_upcoming_appointment |-> "true",
              next_appointment_title |-> appts[1].title,
              next_appointment_date |-> appts[1].date,
              next_appointment_time |-> appts[1].time,
              upcoming_appointments |->
                  Join([i \in DOMAIN first |-> ApptDetail(first[i])],
                       COMMA_SPACE)]
    ELSE [has_upcoming_appointment |-> "false",
          upcoming_appointments |-> NONE_STR]

CLIENT_DATA == "conversation_initiation_client_data"

-----------------------------------------------------------------------------
(* initiate_call(phone_number): the response and the outbound calls        *)
(* requested of the telephony platform.  call_fail: twilio_outbound_call   *)
(* raises.                                                                 *)

InitiateCallIgnoreError(db, phone_number, hour, fail, call_fail) ==
    LET normalized_number == Normalize(phone_number)
        profile == GetLovedOneProfile(db, normalized_number, fail)
        dynamic_variables ==
            Update(Update(ProfileVariables(profile),
                          AppointmentVariables(Get(profile, "appointments", <<>>))),
                   [time_of_day |-> TimeOfDay(hour)])
        call == [to_number |-> normalized_number,
                 conversation_initiation_client_data |->
                     [type |-> CLIENT_DATA,
                      dynamic_variables |-> dynamic_variables]]
    IN  IF call_fail
        THEN [resp |-> [status |-> "error", message |-> "outbound call failed"],
              outbound |-> <<call>>]
        ELSE [resp |-> [status |-> "success", call_sid |-> "CA1"],
              outbound |-> <<call>>]

InitiateCall(db, phone_number, hour, fail, call_fail) ==
    LET normalized_number == Normalize(phone_number)
        profile == GetLovedOneProfile(db, normalized_number, fail)
    IN
    IF "error" \in DOMAIN profile
    THEN [resp |-> [status |-> "error", message |-> profile.error],
          outbound |-> <<>>]
    ELSE
    LET dynamic_variables ==
            Update(Update(ProfileVariables(profile),
                          AppointmentVariables(Get(profile, "appointments", <<>>))),
                   [time_of_day |-> TimeOfDay(hour)])
        call == [to_number |-> normalized_number,
                 conversation_initiation_client_data |->
                     [type |-> CLIENT_DATA,
                      dynamic_variables |-> dynamic_variables]]
    IN  IF call_fail
        THEN [resp |-> [status |-> "error", message |-> "outbound call failed"],
              outbound |-> <<call>>]
        ELSE [resp |-> [status |-> "success", call_sid |-> "CA1"],
              outbound |-> <<call>>]

-----------------------------------------------------------------------------
(* get_caller_name(phone_number)                                           *)

GetCallerName(db, phone_number, fail) ==
    LET normalized_number == Normalize(phone_number)
        response == SelectEq(db.users, "phone_number", normalized_number)
    IN  IF Raises(fail, "users.select") THEN [name |-> "Valued Customer"]
        ELSE IF response # <<>> THEN [name |-> response[1].user_name]
        ELSE [name |-> "Valued Customer"]

-----------------------------------------------------------------------------
(* handle_conversation_initiation.  The request body is a JSON document    *)
(* with an optional caller_id (data.json is TRUE), or no JSON at all, and  *)
(* then request.json() raises.  The profile comes over HTTP from the       *)
(* get-loved-one-profile endpoint: http_ok is whether that request         *)
(* succeeds; the caller id travels in the query string as written, so the  *)
(* endpoint reads each "+" of it as a space.                               *)

QueryDecode(s) == [i \in DOMAIN s |-> IF s[i] = "+" THEN " " ELSE s[i]]

FallbackInitiation ==
    [type |-> CLIENT_DATA, dynamic_variables |-> [caller_name |-> "there"]]

ConversationInitiationPropagate(db, data, http_ok, hour, fail) ==
    IF ~data.json \/ ~http_ok
    THEN [raised |-> TRUE]
    ELSE FallbackInitiation

ConversationInitiation(db, data, http_ok, hour, fail) ==
    IF ~data.json THEN FallbackInitiation
    ELSE
    LET caller_id == Get(data, "caller_id", None)
    IN
    IF ~Truthy(caller_id) THEN FallbackInitiation
    ELSE IF ~http_ok THEN FallbackInitiation
    ELSE
    LET profile == GetLovedOneProfile(db, QueryDecode(caller_id), fail)
    IN
    IF "error" \in DOMAIN profile
    THEN [type |-> CLIENT_DATA,
          dynamic_variables |->
              [caller_name |-> Get(profile, "caller_name", "there")]]
    ELSE [type |-> CLIENT_DATA,
          dynamic_variables |->
              Update(ProfileVariables(profile),
                     [time_of_day |-> TimeOfDay(hour)])]


-----------------------------------------------------------------------------
(* handle_call_end: the ElevenLabs-Signature check.                        *)

\* The characters a signed message may hold, in code order.  The digest
\* below stands for HMAC-SHA256: a keyed checksum of the message's
\* characters and their places, written as one hex digit.
Charset == <<"0","1","2","3","4","5","6","7","8","9","a","b","c","d","e","f",
             "g","h","i","j","k","l","m","n","o","p","q","r","s","t","u","v",
             "w","x","y","z","A","H","U",".",",","=","+"," ",":","|","~","{",
             "\n","\t">>

CharCode == [c \in {Charset[i] : i \in DOMAIN Charset} |->
                CHOOSE i \in DOMAIN Charset : Charset[i] = c]

HexDigits == <<"0","1","2","3","4","5","6","7","8","9","a","b","c","d","e","f">>

RECURSIVE WeightedSum(_, _)
WeightedSum(msg, i) ==
    IF i > Len(msg) THEN 0
    ELSE (i * CharCode[msg[i]]) + WeightedSum(msg, i + 1)

\* hmac.new(key, msg, sha256).hexdigest()
HmacHex(key, msg) ==
    <<HexDigits[((WeightedSum(key, 1) * 7 + WeightedSum(msg, 1)) % 16) + 1]>>

WEBHOOK_SECRET == <<"s","3">>

\* dict(pairs).get(key): the last pair with that key wins; None without one.
RECURSIVE DictGet(_, _)
DictGet(pairs, key) ==
    IF pairs = <<>> THEN None
    ELSE IF pairs[Len(pairs)][1] = key THEN pairs[Len(pairs)][2]
    ELSE DictGet(SubSeq(pairs, 1, Len(pairs) - 1), key)

\* [part.split("=") for part in signature_header.split(",")]
HeaderPairs(signature_header) ==
    LET parts == Split(signature_header, ",")
    IN  [i \in DOMAIN parts |-> Split(parts[i], "=")]

\* hmac.compare_digest on two str raises TypeError unless both are ASCII.
IsAscii(s) == \A i \in DOMAIN s : s[i] \in DOMAIN CharCode

Unauthorized(detail, hmac_computed) ==
    [http |-> 401, detail |-> detail, hmac_computed |-> hmac_computed]

ServerError(exception, hmac_computed) ==
    [http |-> 500, detail |-> exception, hmac_computed |-> hmac_computed]

Authenticated == [http |-> 200, detail |-> "", hmac_computed |-> TRUE]

AuthenticateNoCompare(signature_header, body_str) ==
    IF ~Truthy(signature_header)
    THEN Unauthorized("Missing ElevenLabs-Signature header", FALSE)
    ELSE Authenticated

\* Lines 194-225: the outcome of the signature check for one request.
Authenticate(signature_header, body_str) ==
    IF ~Truthy(signature_header)
    THEN Unauthorized("Missing ElevenLabs-Signature header", FALSE)
    ELSE
    LET pairs == HeaderPairs(signature_header)
    IN
    IF \E i \in DOMAIN pairs : Len(pairs[i]) # 2
    THEN ServerError("ValueError", FALSE)
    ELSE
    LET timestamp == DictGet(pairs, <<"t">>)
        provided_signature == DictGet(pairs, <<"v", "0">>)
    IN
    IF ~Truthy(timestamp) \/ ~Truthy(provided_signature)
    THEN Unauthorized("Invalid ElevenLabs-Signature format", FALSE)
    ELSE
    LET message == timestamp \o <<".">> \o body_str
        expected_signature == HmacHex(WEBHOOK_SECRET, message)
    IN
    IF ~IsAscii(provided_signature)
    THEN ServerError("TypeError", TRUE)
    ELSE IF expected_signature # provided_signature
    THEN Unauthorized("Invalid signature", TRUE)
    ELSE Authenticated


-----------------------------------------------------------------------------
(* handle_call_end: the payload.  A document holds the fields the handler  *)
(* reads, each at its place in the JSON, None where the key is absent:     *)
(*   conversation_id    data.conversation_id                               *)
(*   external_number    data.metadata.phone_call.external_number           *)
(*   system__caller_id  conversation_initiation_client_data                *)
(*                        .dynamic_variables.system__caller_id             *)
(*   transcript         data.transcript                                    *)

UpperChar(c) ==
    IF \E i \in DOMAIN LowerLetters : LowerLetters[i] = c
    THEN UpperLetters[CHOOSE i \in DOMAIN LowerLetters : LowerLetters[i] = c]
    ELSE c

\* str.capitalize()
Capitalize(s) ==
    [i \in DOMAIN s |-> IF i = 1 THEN UpperChar(s[i]) ELSE LowerChar(s[i])]

HI == <<"h", "i">>
AGENT == <<"a", "g", "e", "n", "t">>
USER == <<"u", "s", "e", "r">>
CONV_1 == <<"c", "1">>

TRANSCRIPT == <<[role |-> AGENT, message |-> HI],
                [role |-> USER, message |-> <<>>]>>

\* The raw caller numbers requests carry: two numbers, each written several
\* ways.
RawPhones ==
    {<<"1">>, <<"+", "1">>, <<" ", "1", " ">>, <<"2">>, <<"+", " ", "2">>}

Document(cid, ext, sys, tr) ==
    [conversation_id |-> cid, external_number |-> ext,
     system__caller_id |-> sys, transcript |-> tr,
     call_duration_secs |-> 42, happiness_level |-> "4",
     call_direction |-> "inbound"]

\* The payloads posted: every caller number with a full payload, and the
\* payloads that lack a conversation id, a caller number at one or both
\* places, or a transcript.
Documents ==
    {Document(CONV_1, ext, None, TRANSCRIPT) : ext \in RawPhones}
    \cup {Document(CONV_1, <<"1">>, None, tr) : tr \in {None, <<>>}}
    \cup {Document(cid, ext, sys, TRANSCRIPT) :
            cid \in {None, <<>>, CONV_1},
            ext \in {None, <<>>},
            sys \in {None, <<"+", "1">>}}
    \cup {Document(None, None, None, None)}

Opt(x) == IF x = None THEN <<"~">> ELSE x

TranscriptText(tr) ==
    IF tr = None THEN <<"~">>
    ELSE Join([i \in DOMAIN tr |-> tr[i].role \o <<":">> \o tr[i].message],
              <<",">>)

\* The request body of a document, as text.
JsonDumps(d) ==
    Opt(d.conversation_id) \o <<"|">> \o Opt(d.external_number) \o <<"|">>
    \o Opt(d.system__caller_id) \o <<"|">> \o TranscriptText(d.transcript)

BodyText == [d \in Documents |-> JsonDumps(d)]

\* A body that is no JSON.
NOT_JSON == <<"{">>

Bodies == {BodyText[d] : d \in Documents} \cup {NOT_JSON}

IsJson(body_str) == \E d \in Documents : BodyText[d] = body_str

\* json.loads(body_str)
JsonLoads(body_str) == CHOOSE d \in Documents : BodyText[d] = body_str

\* The transcript as one line per turn with a message.
RECURSIVE TranscriptLines(_)
TranscriptLines(transcript) ==
    IF transcript = <<>> THEN <<>>
    ELSE LET entry == Head(transcript)
             role == Get(entry, "role", <<"u","n","k","n","o","w","n">>)
             message == Get(entry, "message", <<>>)
         IN  (IF message # <<>>
              THEN <<Capitalize(role) \o <<":", " ">> \o message>>
              ELSE <<>>) \o TranscriptLines(Tail(transcript))

FullTranscript(transcript) == Join(TranscriptLines(transcript), <<"\n">>)

-----------------------------------------------------------------------------
(* handle_call_end: lines 227-303, for an authenticated request.  The      *)
(* result is the response and the tables as the handler leaves them.  No   *)
(* await separates the users lookup from the inserts, so they are one step *)
(* of the event loop.                                                      *)

CallEndFaults == {"none", "users.select", "users.insert",
                  "conversations.insert"}

Unchanged(db, resp) ==
    [resp |-> resp, users |-> db.users, conversations |-> db.conversations]

\* Lines 233-237: the caller number, with its fallback place.
CallerId(data) ==
    IF Truthy(data.external_number)
    THEN data.external_number
    ELSE data.system__caller_id

MissingRequiredBoth(conversation_id, caller_id) ==
    ~Truthy(conversation_id) /\ ~Truthy(caller_id)

\* Line 239
MissingRequired(conversation_id, caller_id) ==
    ~Truthy(conversation_id) \/ ~Truthy(caller_id)

PersistCallEnd(db, data, fail) ==
    LET conversation_id == data.conversation_id
        caller_id == CallerId(data)
    IN
    IF MissingRequired(conversation_id, caller_id)
    THEN Unchanged(db, [status |-> "error",
                        message |-> "Missing required fields"])
    ELSE
    LET transcript == IF data.transcript = None THEN <<>> ELSE data.transcript
    IN
    IF ~Truthy(transcript)
    THEN Unchanged(db, [status |-> "error",
                        message |-> "No transcript available"])
    ELSE
    LET full_transcript == FullTranscript(transcript)
        normalized_number == Normalize(caller_id)
        user_response == SelectEq(db.users, "phone_number", normalized_number)
    IN
    IF Raises(fail, "users.select")
    THEN Unchanged(db, [status |-> "error", message |-> "users.select failed"])
    ELSE IF user_response = <<>> /\ Raises(fail, "users.insert")
    THEN Unchanged(db, [status |-> "error", message |-> "users.insert failed"])
    ELSE
    LET new_users == IF user_response # <<>> THEN db.users
                     ELSE Append(db.users,
                                 [id |-> Len(db.users) + 1,
                                  phone_number |-> normalized_number,
                                  user_name |-> "Unknown User"])
        user_id == IF user_response # <<>> THEN user_response[1].id
                   ELSE new_users[Len(new_users)].id
        conversation_data ==
            [user_id |-> user_id, phone_number |-> normalized_number,
             transcript |-> full_transcript,
             call_duration_secs |-> data.call_duration_secs,
             happiness_level |-> data.happiness_level,
             call_direction |-> data.call_direction]
    IN
    IF Raises(fail, "conversations.insert")
    THEN [resp |-> [status |-> "error",
                    message |-> "conversations.insert failed"],
          users |-> new_users, conversations |-> db.conversations]
    ELSE [resp |-> [status |-> "success",
                    message |-> "Transcript and additional data saved"],
          users |-> new_users,
          conversations |-> Append(db.conversations, conversation_data)]

\* handle_call_end(request): the signature check, then the persister.
CallEnd(db, signature_header, body_str, fail) ==
    LET auth == Authenticate(signature_header, body_str)
    IN
    IF auth.http # 200
    THEN [http |-> auth.http, detail |-> auth.detail,
          hmac_computed |-> auth.hmac_computed,
          resp |-> [detail |-> auth.detail], users |-> db.users,
          conversations |-> db.conversations]
    ELSE IF ~IsJson(body_str)
    THEN [http |-> 500, detail |-> "JSONDecodeError", hmac_computed |-> TRUE,
          resp |-> [detail |-> "JSONDecodeError"], users |-> db.users,
          conversations |-> db.conversations]
    ELSE
    LET r == PersistCallEnd(db, JsonLoads(body_str), fail)
    IN  [http |-> 200, detail |-> "", hmac_computed |-> TRUE,
         resp |-> r.resp, users |-> r.users,
         conversations |-> r.conversations]


-----------------------------------------------------------------------------
(* The requests the server is sent.                                        *)

TIMESTAMP == <<"1">>
FORGED_KEY == <<"x">>

\* t=<timestamp>,v0=<digest of timestamp.body under key>
SignedHeader(timestamp, key, body_str) ==
    <<"t", "=">> \o timestamp \o <<",", "v", "0", "=">>
    \o HmacHex(key, timestamp \o <<".">> \o body_str)

\* One character outside ASCII.
E_ACUTE == "U+00E9"

\* Headers that carry no usable t and v0.
MalformedHeaders ==
    {None, <<>>,
     <<"t", "=", "1">>,
     <<"v", "0", "=", "a">>,
     <<"t", "=", ",", "v", "0", "=", "a">>,
     <<"t", "=", "1", ",", "v", "0", "=">>,
     <<"t", "=", "1", ",", "v", "0">>,
     <<"t", "=", "1", ",", "v", "0", "=", "a", "=">>,
     <<"t", "=", "1", ",", "v", "0", "=", E_ACUTE>>}

FULL_BODY == BodyText[Document(CONV_1, <<"2">>, None, TRANSCRIPT)]

OTHER_BODY == BodyText[Document(CONV_1, <<"+", "1">>, None, TRANSCRIPT)]

\* Requests signed by the platform, requests signed without the secret,
\* requests whose signature was made for another body, and requests with a
\* malformed header.
CallEndRequests ==
    {[header |-> SignedHeader(TIMESTAMP, WEBHOOK_SECRET, b), body |-> b] :
        b \in Bodies}
    \cup {[header |-> SignedHeader(TIMESTAMP, FORGED_KEY, b), body |-> b] :
            b \in {FULL_BODY, OTHER_BODY}}
    \cup {[header |-> SignedHeader(TIMESTAMP, WEBHOOK_SECRET, FULL_BODY),
           body |-> OTHER_BODY]}
    \cup {[header |-> h, body |-> FULL_BODY] : h \in MalformedHeaders}

InitiationRequests ==
    {[json |-> FALSE], [json |-> TRUE], [json |-> TRUE, caller_id |-> <<>>]}
    \cup {[json |-> TRUE, caller_id |-> raw] : raw \in RawPhones}

\* What a request meets outside the handler: the local hour, the datastore
\* call that raises (fail), whether the HTTP request for the profile
\* succeeds (http_ok), whether twilio_outbound_call raises (call_fail).  At
\* most one thing goes wrong per request.
Hours == {4, 5, 12, 17}

Environments ==
    {[hour |-> h, fail |-> "none", http_ok |-> TRUE, call_fail |-> FALSE] :
        h \in Hours}
    \cup {[hour |-> 12, fail |-> f, http_ok |-> TRUE, call_fail |-> FALSE] :
            f \in ProfileFaults}
    \cup {[hour |-> 12, fail |-> "none", http_ok |-> FALSE, call_fail |-> FALSE],
          [hour |-> 12, fail |-> "none", http_ok |-> TRUE, call_fail |-> TRUE]}

-----------------------------------------------------------------------------
(* The handlers as steps of the server.                                    *)

Reply(op, req, http, resp, outbound, hmac_computed) ==
    [op |-> op, req |-> req, http |-> http, resp |-> resp,
     outbound |-> outbound, hmac_computed |-> hmac_computed]

HandleGetCallerName ==
    \E phone_number \in RawPhones, fail \in {"none", "users.select"} :
        /\ last' = Reply("get_caller_name", [phone_number |-> phone_number],
                         200, GetCallerName(DB, phone_number, fail),
                         <<>>, FALSE)
        /\ UNCHANGED <<users, conversations, tables, session>>

HandleGetLovedOneProfile ==
    \E phone_number \in RawPhones, fail \in ProfileFaults :
        /\ last' = Reply("get_loved_one_profile",
                         [phone_number |-> phone_number], 200,
                         GetLovedOneProfile(DB, phone_number, fail),
                         <<>>, FALSE)
        /\ UNCHANGED <<users, conversations, tables, session>>

HandleInitiateCall ==
    \E phone_number \in RawPhones, env \in Environments :
        \E r \in {InitiateCall(DB, phone_number, env.hour, env.fail,
                              env.call_fail)} :
            /\ last' = Reply("initiate_call", [phone_number |-> phone_number],
                             200, r.resp, r.outbound, FALSE)
            /\ UNCHANGED <<users, conversations, tables, session>>

HandleConversationInitiation ==
    \E data \in InitiationRequests, env \in Environments :
        /\ last' = Reply("conversation_initiation", [data |-> data], 200,
                         ConversationInitiation(DB, data, env.http_ok,
                                                env.hour, env.fail),
                         <<>>, FALSE)
        /\ UNCHANGED <<users, conversations, tables, session>>

HandleCallEnd ==
    /\ Len(conversations) < MaxConversations
    /\ \E req \in CallEndRequests, fail \in CallEndFaults :
        \E r \in {CallEnd(DB, req.header, req.body, fail)} :
            /\ users' = r.users
            /\ conversations' = r.conversations
            /\ last' = Reply("call_end", req, r.http, r.resp, <<>>,
                             r.hmac_computed)
            /\ UNCHANGED <<tables, session>>

-----------------------------------------------------------------------------
(* The server with its datastore.                                          *)

ANN == [id |-> 1, phone_number |-> <<"+", "1">>, user_name |-> "Ann"]

ROSE == [id |-> 1, user_id |-> 1, name |-> "Rose", nickname |-> "Ro",
         age_range |-> "80-89", gender |-> "female",
         relationship_to_user |-> "mother"]

NoRequest == Reply("none", EmptyDict, 200, EmptyDict, <<>>, FALSE)

NoSessions == <<>>

Init ==
    /\ users \in {<<>>, <<ANN>>}
    /\ loved_ones \in {<<>>} \cup (IF users = <<>> THEN {} ELSE {<<ROSE>>})
    /\ conversations = <<>>
    /\ medications =
         <<[loved_one_id |-> 1, medication_name |-> <<"A">>,
            time_taken |-> [kind |-> "list",
                            items |-> <<<<"M","o","r","n","i","n","g">>>>]]>>
    /\ call_preferences = <<>>
    /\ notification_settings =
         <<[loved_one_id |-> 1, daily_call_summary |-> TRUE,
            missed_calls |-> FALSE, low_sentiment |-> TRUE]>>
    /\ appointments =
         <<[loved_one_id |-> 1, appointment_title |-> <<"G", "P">>,
            appointment_date |-> <<"M", "o", "n">>,
            appointment_time |-> <<"9">>, frequency |-> "weekly"]>>
    /\ last = NoRequest
    /\ session = NoSessions

Next ==
    \/ HandleGetCallerName
    \/ HandleGetLovedOneProfile
    \/ HandleInitiateCall
    \/ HandleConversationInitiation
    \/ HandleCallEnd

Spec == Init /\ [][Next]_vars


-----------------------------------------------------------------------------
(* handle_media_stream.  One session per accepted websocket.  The client   *)
(* and the network act on ws and inbox; the handler runs from one await to *)
(* the next in one step of the event loop:                                 *)
(*   idle      before await websocket.accept()                             *)
(*   accepted  accept() returned; Conversation(...) not yet constructed    *)
(*   active    start_session() returned; awaiting the next text frame      *)
(*   waiting   end_session() returned; inside wait_for_session_end()       *)
(*   closed    the finally block has run                                   *)
(* wait_for_session_end() is called without await: while a handler is      *)
(* inside it, the event loop runs no other handler's step.                 *)
(* Frames are "" (empty text), a media event, or text that is no JSON.     *)

Sessions == {"s1", "s2"}

FrameKinds == {"empty", "media", "not_json"}

NewSession ==
    [pc |-> "idle", ws |-> "connecting", inbox |-> <<>>, sent |-> 0,
     relayed |-> <<>>, conversation |-> "unbound", start_calls |-> 0,
     end_calls |-> 0, wait_calls |-> 0, exit |-> "none"]

\* The finally block, lines 467-474: end_session() and then
\* wait_for_session_end(), inside one try.  With conversation unbound the
\* first of them raises UnboundLocalError before anything is called.
Teardown(sess, exit, end_raises, wait_raises) ==
    IF sess.conversation = "unbound"
    THEN [sess EXCEPT !.pc = "closed", !.exit = exit]
    ELSE IF end_raises
    THEN [sess EXCEPT !.pc = "closed", !.exit = exit,
                      !.end_calls = @ + 1]
    ELSE [sess EXCEPT !.pc = "waiting", !.exit = exit,
                      !.end_calls = @ + 1, !.wait_calls = @ + 1]

\* Lines 445-455: construct the conversation and start its session.
StartConversation(sess, construct_raises, start_raises, end_raises, wait_raises) ==
    IF construct_raises
    THEN Teardown(sess, "construct_error", end_raises, wait_raises)
    ELSE IF start_raises
    THEN Teardown([sess EXCEPT !.conversation = "bound",
                               !.start_calls = @ + 1],
                  "start_error", end_raises, wait_raises)
    ELSE [sess EXCEPT !.conversation = "bound", !.start_calls = @ + 1,
                      !.pc = "active"]

\* Lines 457-460: one turn of the loop over websocket.iter_text().
RelayFrame(sess, handler_raises, end_raises, wait_raises) ==
    LET message == Head(sess.inbox)
        rest == [sess EXCEPT !.inbox = Tail(@)]
    IN  IF message.kind = "empty" THEN rest
        ELSE IF message.kind = "not_json"
        THEN Teardown(rest, "decode_error", end_raises, wait_raises)
        ELSE IF handler_raises
        THEN Teardown(rest, "handler_error", end_raises, wait_raises)
        ELSE [rest EXCEPT !.relayed = Append(@, message.seq)]

\* No handler is inside a synchronous call: the event loop can run a step.
LoopFree == \A t \in Sessions : session[t].pc # "waiting"

\* The telephony client opens a media stream and the handler accepts it.
Connect(s) ==
    /\ LoopFree
    /\ session[s].pc = "idle" /\ session[s].ws = "connecting"
    /\ session' = [session EXCEPT ![s].ws = "open", ![s].pc = "accepted"]
    /\ UNCHANGED <<users, conversations, tables, last>>

\* The handler constructs and starts the conversation.
Start(s) ==
    /\ LoopFree
    /\ session[s].pc = "accepted"
    /\ \E construct_raises, start_raises, end_raises, wait_raises \in BOOLEAN :
         session' = [session EXCEPT ![s] =
             StartConversation(@, construct_raises, start_raises, end_raises,
                               wait_raises)]
    /\ UNCHANGED <<users, conversations, tables, last>>

\* The client sends a text frame.
ClientSend(s) ==
    /\ session[s].ws = "open"
    /\ session[s].sent < MaxFrames
    /\ \E kind \in FrameKinds :
         session' = [session EXCEPT
             ![s].sent = @ + 1,
             ![s].inbox = Append(@, [seq |-> session[s].sent + 1,
                                     kind |-> kind])]
    /\ UNCHANGED <<users, conversations, tables, last>>

\* The client hangs up, or the transport fails.
ClientClose(s) ==
    /\ session[s].ws = "open"
    /\ \E how \in {"closed", "failed"} :
         session' = [session EXCEPT ![s].ws = how]
    /\ UNCHANGED <<users, conversations, tables, last>>

\* The handler takes the next frame off the stream.
Receive(s) ==
    /\ LoopFree
    /\ session[s].pc = "active"
    /\ session[s].inbox # <<>>
    /\ \E handler_raises, end_raises, wait_raises \in BOOLEAN :
         session' = [session EXCEPT ![s] =
             RelayFrame(@, handler_raises, end_raises, wait_raises)]
    /\ UNCHANGED <<users, conversations, tables, last>>

\* The stream has ended: iter_text() returns (or WebSocketDisconnect
\* reaches the handler) after a hang-up, and raises after a failure.
StreamEnd(s) ==
    /\ LoopFree
    /\ session[s].pc = "active"
    /\ session[s].inbox = <<>>
    /\ session[s].ws \in {"closed", "failed"}
    /\ \E exit \in (IF session[s].ws = "closed"
                    THEN {"stream_closed", "disconnect"}
                    ELSE {"transport_error"}),
          end_raises, wait_raises \in BOOLEAN :
         session' = [session EXCEPT ![s] =
             Teardown(@, exit, end_raises, wait_raises)]
    /\ UNCHANGED <<users, conversations, tables, last>>

\* wait_for_session_end() returns or raises, and the finally block is done.
WaitReturn(s) ==
    /\ session[s].pc = "waiting"
    /\ session' = [session EXCEPT ![s].pc = "closed"]
    /\ UNCHANGED <<users, conversations, tables, last>>

StreamInit ==
    /\ users = <<>>
    /\ conversations = <<>>
    /\ loved_ones = <<>>
    /\ medications = <<>>
    /\ call_preferences = <<>>
    /\ notification_settings = <<>>
    /\ appointments = <<>>
    /\ last = NoRequest
    /\ session = [s \in Sessions |-> NewSession]

StreamNext ==
    \E s \in Sessions :
        \/ Connect(s)
        \/ Start(s)
        \/ ClientSend(s)
        \/ ClientClose(s)
        \/ Receive(s)
        \/ StreamEnd(s)
        \/ WaitReturn(s)

StreamSpec == StreamInit /\ [][StreamNext]_vars

\* The handler's steps are tasks of the event loop: one that can run is run.
\* The client's steps (Connect, ClientSend, ClientClose) are under no such
\* obligation.
StreamFairness ==
    \A s \in Sessions :
        /\ WF_vars(Start(s))
        /\ WF_vars(Receive(s))
        /\ WF_vars(StreamEnd(s))
        /\ WF_vars(WaitReturn(s))

StreamFairSpec == StreamSpec /\ StreamFairness


-----------------------------------------------------------------------------
(* The profile endpoint over every medications table of up to MaxMeds      *)
(* rows: two names, and time_taken absent, a list of tags, or one string.  *)

Tag_Morning == <<"M", "o", "r", "n", "i", "n", "g">>
Tag_Evening == <<"E", "v", "e", "n", "i", "n", "g">>
Tag_AFTERNOON == <<"A", "F", "T", "E", "R", "N", "O", "O", "N">>
Tag_bedtime == <<"b", "e", "d", "t", "i", "m", "e">>

TimeTakenValues ==
    {[kind |-> "list", items |-> items] :
        items \in {<<>>, <<Tag_Morning>>, <<Tag_Morning, Tag_Evening>>,
                   <<Tag_AFTERNOON>>, <<Tag_bedtime>>,
                   <<Tag_bedtime, Tag_Evening>>}}
    \cup {[kind |-> "str", text |-> text] :
            text \in {Tag_Morning \o <<",", " ">> \o Tag_Evening,
                      Tag_AFTERNOON,
                      Tag_bedtime \o <<",">> \o Tag_Morning}}

MedNames == {<<"A">>, <<"B">>}

MedRows ==
    {[loved_one_id |-> 1, medication_name |-> n, time_taken |-> t] :
        n \in MedNames, t \in TimeTakenValues}
    \cup {[loved_one_id |-> 1, medication_name |-> n] : n \in MedNames}

SeqsUpTo(S, n) == UNION {[1..k -> S] : k \in 0..n}

MedsInit ==
    /\ users = <<ANN>>
    /\ loved_ones = <<ROSE>>
    /\ conversations = <<>>
    /\ medications \in SeqsUpTo(MedRows, MaxMeds)
    /\ call_preferences = <<>>
    /\ notification_settings = <<>>
    /\ appointments = <<>>
    /\ last = NoRequest
    /\ session = NoSessions

MedsNext == HandleGetLovedOneProfile

MedsSpec == MedsInit /\ [][MedsNext]_vars

-----------------------------------------------------------------------------
(* initiate_call over appointment tables of every length up to MaxAppts:   *)
(* rows of the caller's loved one (id 1) and of another loved one (id 2),  *)
(* in any order.                                                           *)

GP == <<"G", "P">>
EYE == <<"E", "y", "e">>
MON == <<"M", "o", "n">>
TUE == <<"T", "u", "e">>

ApptRows ==
    {[loved_one_id |-> 1, appointment_title |-> GP, appointment_date |-> MON,
      appointment_time |-> <<"9">>, frequency |-> "weekly"],
     [loved_one_id |-> 1, appointment_title |-> EYE, appointment_date |-> TUE,
      appointment_time |-> <<"8">>, frequency |-> "once"],
     [loved_one_id |-> 1, appointment_title |-> None, appointment_date |-> MON,
      appointment_time |-> <<"8">>, frequency |-> "once"],
     [loved_one_id |-> 2, appointment_title |-> GP, appointment_date |-> TUE,
      appointment_time |-> <<"9">>, frequency |-> "weekly"]}

ApptsInit ==
    /\ users = <<ANN>>
    /\ loved_ones = <<ROSE>>
    /\ conversations = <<>>
    /\ medications = <<>>
    /\ call_preferences = <<>>
    /\ notification_settings = <<>>
    /\ appointments \in SeqsUpTo(ApptRows, MaxAppts)
    /\ last = NoRequest
    /\ session = NoSessions

ApptsNext == HandleInitiateCall

ApptsSpec == ApptsInit /\ [][ApptsNext]_vars

-----------------------------------------------------------------------------
(* The phone normalisation on its own: every string of up to MaxPhoneLen   *)
(* characters (space, tab, '+', a digit) is normalised, and the result is  *)
(* normalised again, as when a stored number comes back in a request.      *)

PhoneChars == {" ", "\t", "+", "1"}

PhoneStrings == SeqsUpTo(PhoneChars, MaxPhoneLen)

NormInit ==
    /\ users = <<>>
    /\ loved_ones = <<>>
    /\ conversations = <<>>
    /\ medications = <<>>
    /\ call_preferences = <<>>
    /\ notification_settings = <<>>
    /\ appointments = <<>>
    /\ \E x \in PhoneStrings :
          last = Reply("input", [phone_number |-> x], 200,
                       [normalized_number |-> None], <<>>, FALSE)
    /\ session = NoSessions

NormalizeNumber ==
    /\ last.op = "input"
    /\ last' = Reply("normalize", last.req, 200,
                     [normalized_number |-> Normalize(last.req.phone_number)],
                     <<>>, FALSE)
    /\ UNCHANGED <<users, conversations, tables, session>>

NormalizeAgain ==
    /\ last.op = "normalize"
    /\ last' = Reply("normalize_again", last.req, 200,
                     [normalized_number |->
                          Normalize(last.resp.normalized_number)],
                     <<>>, FALSE)
    /\ UNCHANGED <<users, conversations, tables, session>>

NormNext == NormalizeNumber \/ NormalizeAgain

NormSpec == NormInit /\ [][NormNext]_vars

-----------------------------------------------------------------------------
(* Claims about handle_media_stream, checked under StreamSpec.             *)

\* C1: a session that has ended called end_session exactly once and
\* wait_for_session_end exactly once, whatever path ended it (the stream
\* closing, WebSocketDisconnect, or an exception, also one raised by the
\* Conversation constructor, by start_session or by end_session).
C1_TeardownExactlyOnce ==
    \A s \in Sessions :
        session[s].pc = "closed" =>
            session[s].end_calls = 1 /\ session[s].wait_calls = 1

\* C2: an error while interpreting one frame (text that is no JSON, or an
\* exception from handle_twilio_message) only drops that frame: a session
\* that was Active ends only because its transport closed or failed.
C2_FrameErrorOnlyDropsFrame ==
    \A s \in Sessions :
        (session[s].pc = "closed" /\ session[s].start_calls = 1
         /\ session[s].exit # "start_error") =>
            session[s].exit \in {"stream_closed", "disconnect",
                                 "transport_error"}

-----------------------------------------------------------------------------
(* Claims about handle_call_end, checked under Spec.                       *)

\* A request the platform signed: its header is t=<timestamp>,v0=<digest>
\* with the digest of "<timestamp>.<body>" under the webhook secret.
Genuine(req) ==
    req.header = SignedHeader(TIMESTAMP, WEBHOOK_SECRET, req.body)

\* The header names no v0 entry.
LacksV0(header) ==
    header = None \/ ~Contains(header, <<"v", "0">>)

\* C3: every call-end request that fails authentication (no header, a
\* header that does not parse into t and v0, a digest that does not match)
\* is answered 401 and nothing else, and a header without v0 is rejected
\* before any HMAC is computed.
C3_UnauthenticatedIs401 ==
    (last.op = "call_end" /\ ~Genuine(last.req)) =>
        /\ last.http = 401
        /\ LacksV0(last.req.header) => ~last.hmac_computed


\* The last request was a call-end request answered with this status.
CallEndAnswered(status) ==
    /\ last.op = "call_end"
    /\ last.http = 200
    /\ last.resp.status = status

\* C4: a step that adds a row to users or conversations handles a call-end
\* request whose signature is the HMAC of "<timestamp>.<body>" under the
\* secret, and a request answered 401 changes neither table.
C4_InsertsOnlySigned ==
    [][/\ (users' # users \/ conversations' # conversations) =>
            (last'.op = "call_end" /\ Genuine(last'.req))
       /\ (last'.op = "call_end" /\ last'.http = 401) =>
            (users' = users /\ conversations' = conversations)]_vars

C4_Witness ==
    /\ CallEndAnswered("success")
    /\ Genuine(last.req)
    /\ Len(conversations) = 1
    /\ Len(users) = 1
    /\ users[1].user_name = "Unknown User"

\* C5: delivering an authenticated payload again (same body, same
\* conversation id) right after it was stored adds no caller record and no
\* conversation record.
C5_RedeliveryAddsNothing ==
    [][(CallEndAnswered("success") /\ last'.op = "call_end"
        /\ last'.req = last.req) =>
            (users' = users /\ conversations' = conversations)]_vars

\* The digits of a raw number: its text without spaces and surrounding
\* whitespace, and without a leading "+".
Digits(raw) ==
    LET t == SelectSeq(raw, LAMBDA c : c \notin Whitespace)
    IN  IF t # <<>> /\ t[1] = "+" THEN Tail(t) ELSE t

\* No whitespace, and a leading "+".
IsCanonical(phone) ==
    /\ \A i \in DOMAIN phone : phone[i] \notin Whitespace
    /\ phone # <<>> /\ phone[1] = "+"

\* C6: every users row holds a canonical number, no two rows hold the same
\* number, and two raw inputs that write the same number resolve to the
\* same caller in get_caller_name, get_loved_one_profile_query and
\* initiate_call.
C6_OneCallerPerNumber ==
    /\ \A i \in DOMAIN users : IsCanonical(users[i].phone_number)
    /\ \A i, j \in DOMAIN users :
         Digits(users[i].phone_number) = Digits(users[j].phone_number)
            => i = j
    /\ \A r1, r2 \in RawPhones :
         Digits(r1) = Digits(r2) =>
            /\ GetCallerName(DB, r1, "none") = GetCallerName(DB, r2, "none")
            /\ GetLovedOneProfile(DB, r1, "none")
                 = GetLovedOneProfile(DB, r2, "none")
            /\ InitiateCall(DB, r1, 12, "none", FALSE).resp
                 = InitiateCall(DB, r2, 12, "none", FALSE).resp

\* The caller " 1 " was stored on one delivery and found again on the next,
\* sent as "+1".
C6_Witness ==
    /\ CallEndAnswered("success")
    /\ JsonLoads(last.req.body).external_number = <<"+", "1">>
    /\ Len(conversations) = 2
    /\ conversations[1].user_id = conversations[2].user_id
    /\ \E i \in DOMAIN users :
         /\ users[i].id = conversations[2].user_id
         /\ users[i].user_name = "Unknown User"

\* Absent or empty.
Missing(x) == x = None \/ x = <<>>

\* C7: for an authenticated payload, a missing conversation id or a caller
\* number missing at both places gives "Missing required fields";
\* otherwise a missing or empty transcript gives "No transcript available";
\* and neither request writes a row.
C7_MissingFieldsNotPersisted ==
    [][(last'.op = "call_end" /\ Genuine(last'.req)
        /\ IsJson(last'.req.body)) =>
          LET d == JsonLoads(last'.req.body)
              no_fields ==
                  \/ Missing(d.conversation_id)
                  \/ (Missing(d.external_number)
                      /\ Missing(d.system__caller_id))
          IN  /\ no_fields =>
                    /\ last'.http = 200
                    /\ last'.resp = [status |-> "error",
                                     message |-> "Missing required fields"]
                    /\ users' = users /\ conversations' = conversations
              /\ (~no_fields /\ Missing(d.transcript)) =>
                    /\ last'.http = 200
                    /\ last'.resp = [status |-> "error",
                                     message |-> "No transcript available"]
                    /\ users' = users /\ conversations' = conversations]_vars

\* A payload with a conversation id and no caller number at either place
\* was refused.
C7_Witness ==
    /\ CallEndAnswered("error")
    /\ last.resp.message = "Missing required fields"
    /\ Genuine(last.req)
    /\ JsonLoads(last.req.body).conversation_id = CONV_1
    /\ JsonLoads(last.req.body).external_number = None
    /\ JsonLoads(last.req.body).system__caller_id = None

-----------------------------------------------------------------------------
(* Claims about initiate_call and handle_conversation_initiation, under    *)
(* Spec.                                                                   *)

\* The users rows of a raw number, and the loved ones of those callers.
CallersOf(raw) ==
    {i \in DOMAIN users : Digits(users[i].phone_number) = Digits(raw)}

LovedOnesOf(raw) ==
    {j \in DOMAIN loved_ones :
        \E i \in CallersOf(raw) : loved_ones[j].user_id = users[i].id}

AssemblerErrors ==
    {"User not found", "No loved one profile found", "users.select failed",
     "loved_ones.select failed", "medications.select failed"}

\* C8: initiate_call for a number with no caller record or no loved-one
\* profile, or whose assembly failed, answers {status: "error", message}
\* and requests no outbound call; an outbound call is requested only with
\* the assembled profile of that caller's loved one.
C8_NoCallWithoutProfile ==
    last.op = "initiate_call" =>
        /\ LovedOnesOf(last.req.phone_number) = {} =>
              /\ last.resp.status = "error"
              /\ last.resp.message \in AssemblerErrors
              /\ last.outbound = <<>>
        /\ (last.resp.status = "error"
            /\ last.resp.message \in AssemblerErrors) =>
              last.outbound = <<>>
        /\ last.outbound # <<>> =>
              /\ Len(last.outbound) = 1
              /\ \E j \in LovedOnesOf(last.req.phone_number) :
                   last.outbound[1].conversation_initiation_client_data
                       .dynamic_variables.loved_one_name = loved_ones[j].name

\* A caller on record without a loved-one profile was refused.
C8_Witness ==
    /\ last.op = "initiate_call"
    /\ CallersOf(last.req.phone_number) # {}
    /\ LovedOnesOf(last.req.phone_number) = {}
    /\ last.resp.message = "No loved one profile found"
    /\ last.outbound = <<>>

\* C9: handle_conversation_initiation always answers with a
\* conversation_initiation_client_data payload whose dynamic variables
\* hold a caller_name: a stored caller name, "Valued Customer" or "there".
C9_InitiationAlwaysAnswers ==
    last.op = "conversation_initiation" =>
        /\ last.http = 200
        /\ DOMAIN last.resp = {"type", "dynamic_variables"}
        /\ last.resp.type = "conversation_initiation_client_data"
        /\ "caller_name" \in DOMAIN last.resp.dynamic_variables
        /\ last.resp.dynamic_variables.caller_name
             \in {users[i].user_name : i \in DOMAIN users}
                 \cup {"Valued Customer", "there"}

\* A caller on record without a loved-one profile is greeted by name.
C9_Witness ==
    /\ last.op = "conversation_initiation"
    /\ DOMAIN last.resp.dynamic_variables = {"caller_name"}
    /\ last.resp.dynamic_variables.caller_name = "Ann"


-----------------------------------------------------------------------------
(* Claims about the medication buckets, checked under MedsSpec.            *)

\* The time-of-day tags of a medication row: the items of a list, the
\* comma-separated parts of a string, none without the column.
TagsOf(med) ==
    IF "time_taken" \notin DOMAIN med THEN {}
    ELSE IF med.time_taken.kind = "list"
    THEN {med.time_taken.items[i] : i \in DOMAIN med.time_taken.items}
    ELSE LET parts == Split(med.time_taken.text, ",")
         IN  {parts[i] : i \in DOMAIN parts}

\* tag contains word, whatever the case of tag's letters
ContainsIgnoringCase(tag, word) ==
    \E i \in 0..(Len(tag) - Len(word)) :
        \A j \in 1..Len(word) : LowerChar(tag[i + j]) = word[j]

\* The names of the medications with a tag that contains word.
NamesTagged(word) ==
    {medications[i].medication_name : i \in
        {k \in DOMAIN medications :
            \E tag \in TagsOf(medications[k]) :
                ContainsIgnoringCase(tag, word)}}

\* The names a bucket string lists.
NamesListed(bucket) ==
    IF bucket = NONE_STR THEN {}
    ELSE LET parts == Split(bucket, ",")
         IN  {LStrip(parts[i]) : i \in DOMAIN parts}

BucketMatches(bucket, word) ==
    /\ NamesListed(bucket) = NamesTagged(word)
    /\ (bucket = NONE_STR) <=> (NamesTagged(word) = {})

\* C10: in an assembled profile a medication's name is in the morning
\* (afternoon, evening) bucket exactly when one of its tags contains
\* "morning" ("afternoon", "evening") in any case; a bucket without a
\* member is "none"; has_medications is true exactly when there is a
\* medication row.
C10_MedicationBuckets ==
    (last.op = "get_loved_one_profile" /\ "medications" \in DOMAIN last.resp) =>
        LET m == last.resp.medications
        IN  /\ BucketMatches(m.morning_medications, MORNING)
            /\ BucketMatches(m.afternoon_medications, AFTERNOON)
            /\ BucketMatches(m.evening_medications, EVENING)
            /\ m.has_medications <=> (medications # <<>>)
            /\ medications = <<>> =>
                  /\ m.has_medications = FALSE
                  /\ m.morning_medications = NONE_STR
                  /\ m.afternoon_medications = NONE_STR
                  /\ m.evening_medications = NONE_STR

\* One medication tagged ["Morning", "Evening"]: in the morning and the
\* evening bucket, not in the afternoon one.
C10_Witness ==
    /\ last.op = "get_loved_one_profile"
    /\ "medications" \in DOMAIN last.resp
    /\ Len(medications) = 1
    /\ "time_taken" \in DOMAIN medications[1]
    /\ medications[1].time_taken
         = [kind |-> "list", items |-> <<Tag_Morning, Tag_Evening>>]
    /\ last.resp.medications.morning_medications = <<"A">>
    /\ last.resp.medications.evening_medications = <<"A">>
    /\ last.resp.medications.afternoon_medications = NONE_STR
    /\ last.resp.medications.has_medications



-----------------------------------------------------------------------------
(* Claims about the appointment summary of initiate_call, under ApptsSpec. *)

\* The appointment rows retrieved for the loved one, in table order.
RowsRetrieved == SelectSeq(appointments, LAMBDA r : r.loved_one_id = ROSE.id)

\* The entries of a summary string: what stands between its commas.
SummaryEntries(summary) ==
    IF summary = NONE_STR THEN <<>> ELSE Split(summary, ",")

\* The i-th entry of a summary describes row: "<title> on <date> at <time>",
\* after a space when it is not the first.
EntryDescribes(entry, i, row) ==
    entry = (IF i = 1 THEN <<>> ELSE <<" ">>)
            \o row.appointment_title \o <<" ", "o", "n", " ">>
            \o row.appointment_date \o <<" ", "a", "t", " ">>
            \o row.appointment_time

\* The dynamic variables of the outbound call initiate_call requested.
CallVariables ==
    last.outbound[1].conversation_initiation_client_data.dynamic_variables

\* C11: for every number n of appointment rows retrieved, the
\* upcoming_appointments summary of initiate_call has min(n, 3) entries,
\* describing the first min(n, 3) rows in retrieval order, and the
\* next_appointment_* variables describe the first row; with no rows
\* has_upcoming_appointment is "false" and the summary is "none".
C11_SummaryAtMostThree ==
    (last.op = "initiate_call" /\ last.outbound # <<>>) =>
        LET n == Len(RowsRetrieved)
            k == IF n < 3 THEN n ELSE 3
            entries == SummaryEntries(CallVariables.upcoming_appointments)
        IN  /\ Len(entries) = k
            /\ Len(entries) <= 3
            /\ \A i \in 1..k : EntryDescribes(entries[i], i, RowsRetrieved[i])
            /\ n = 0 =>
                  /\ CallVariables.has_upcoming_appointment = "false"
                  /\ CallVariables.upcoming_appointments = NONE_STR
                  /\ "next_appointment_title" \notin DOMAIN CallVariables
            /\ n > 0 =>
                  /\ CallVariables.has_upcoming_appointment = "true"
                  /\ CallVariables.next_appointment_title
                        = RowsRetrieved[1].appointment_title
                  /\ CallVariables.next_appointment_date
                        = RowsRetrieved[1].appointment_date
                  /\ CallVariables.next_appointment_time
                        = RowsRetrieved[1].appointment_time

\* Four rows were retrieved and the call went out with a summary of three.
C11_Witness ==
    /\ last.op = "initiate_call"
    /\ last.outbound # <<>>
    /\ Len(RowsRetrieved) = 4
    /\ Len(SummaryEntries(CallVariables.upcoming_appointments)) = 3
    /\ RowsRetrieved[1] # RowsRetrieved[2]

-----------------------------------------------------------------------------
(* Claims about the phone normalisation, checked under NormSpec.           *)

\* C12: phone normalisation is idempotent: normalising a normalised number
\* gives that number again, for every input string, the empty string,
\* strings of whitespace only and strings starting with '+' included.
C12_NormalizeIdempotent ==
    [][last.op = "normalize" =>
          last'.resp.normalized_number = last.resp.normalized_number]_vars

\* A string of whitespace only was normalised twice, to "+" both times.
C12_Witness ==
    /\ last.op = "normalize_again"
    /\ Len(last.req.phone_number) = 2
    /\ \A i \in 1..2 : last.req.phone_number[i] \in {" ", "\t"}
    /\ last.resp.normalized_number = <<"+">>

-----------------------------------------------------------------------------
(* Claims about the end of a media stream, checked under StreamFairSpec.   *)

\* The network stream of session s is gone while its handler is in the loop.
StreamGone(s) ==
    session[s].pc = "active" /\ session[s].ws \in {"closed", "failed"}

\* The AI session of s was ended and waited for.
TornDown(s) ==
    /\ session[s].pc = "closed"
    /\ session[s].end_calls = 1
    /\ session[s].wait_calls = 1

\* C13: once the network stream of a session has disconnected, the session
\* eventually reaches teardown, with end_session requested and
\* wait_for_session_end returned, and from then on no frame is relayed.
C13_DisconnectLeadsToTeardown ==
    /\ \A s \in Sessions : StreamGone(s) ~> TornDown(s)
    /\ [][\A s \in Sessions :
              session[s].pc = "closed" =>
                  session'[s].relayed = session[s].relayed]_vars

-----------------------------------------------------------------------------
(* Claims about concurrent media streams, checked under StreamSpec.        *)

\* Session s is being torn down or has been.
Ending(s) == session[s].pc \in {"waiting", "closed"}

\* The frames session t relayed are in the order it received them.
RelayedInOrder(t) ==
    \A i, j \in DOMAIN session[t].relayed :
        i < j => session[t].relayed[i] < session[t].relayed[j]

\* C14: while one session ends and waits for its AI session, every other
\* session that is Active keeps its conversation and keeps relaying: its
\* frames went out in receipt order and its next frame can be taken now.
C14_OtherSessionsKeepRelaying ==
    \A s, t \in Sessions :
        (s # t /\ Ending(s) /\ session[t].pc = "active") =>
            /\ session[t].conversation = "bound"
            /\ session[t].end_calls = 0
            /\ RelayedInOrder(t)
            /\ session[t].inbox # <<>> => ENABLED Receive(t)

-----------------------------------------------------------------------------
(* Claims about what a failed call-end request leaves behind, under Spec.  *)

\* C15: an authenticated call-end request answered {status: "error"}
\* (missing fields, no transcript, or a datastore call that failed) leaves
\* the users and conversations tables as they were before the request; a
\* failed conversations insert leaves no new placeholder caller.
C15_ErrorLeavesTablesUnchanged ==
    [][(/\ last'.op = "call_end"
        /\ Genuine(last'.req)
        /\ last'.http = 200
        /\ last'.resp.status = "error") =>
          /\ users' = users
          /\ conversations' = conversations]_vars

=============================================================================
